---- MODULE Spec2Model ----
(***************************************************************************)
(* Model of app.py: the Streamlit script that shows the drought-decree     *)
(* ("arretes secheresse") map and the department indicators.               *)
(*                                                                         *)
(* Tables (DataFrame / GeoDataFrame) are sequences of records, one record  *)
(* per row, in row order.  ISO date strings "yyyy-mm-dd" are triples       *)
(* <<yyyy, mm, dd>> compared lexicographically, which is what Python's     *)
(* string comparison does on fixed-width ISO dates.                        *)
(***************************************************************************)
EXTENDS Integers, Sequences, FiniteSets, TLC

VARIABLES
    pc,                 \* position of the current run of main()
    session_state,      \* st.session_state: the keys it holds and their values
    cache,              \* entries of st.cache_data (lire_geopandas, get_arretes)
    uploaded_file,      \* value of the sidebar file uploader
    today,              \* dt.date.today() of the run
    data_load_state,    \* text shown by the st.text status element
    itineraire,         \* static layer Export_Itineraire_COP.gpkg
    dept_iti,           \* static layer departements_itineraires.gpkg
    zones_arretes,      \* result of get_zones_secheresse
    df_arretes,         \* archive table of main
    table_indic,        \* result of construire_table_indic in main
    carte,              \* folium map built by construire_carte
    tab1,               \* content rendered in tab "Carte des arretes"
    tab2,               \* content rendered in tab "Indicateurs des arretes"
    appels,             \* functions called so far in the run (cleared when a run is asked for)
    echec,              \* operation that failed in the run (cleared when a run is asked for)
    arg,                \* arguments of the function under study
    ret                 \* its returned value

vars == <<pc, session_state, cache, uploaded_file, today, data_load_state,
          itineraire, dept_iti, zones_arretes, df_arretes, table_indic,
          carte, tab1, tab2, appels, echec, arg, ret>>

mainVars == <<pc, session_state, cache, uploaded_file, today, data_load_state,
              itineraire, dept_iti, zones_arretes, df_arretes, table_indic,
              carte, tab1, tab2, appels, echec>>

(***************************************************************************)
(* Bounds of the model.                                                    *)
(***************************************************************************)
MaxRows  == 2      \* rows of an archive table
MaxZones == 2      \* features of a restriction-zone layer
MaxDepts == 2      \* rows of the VNF department layer

None == "None"     \* Python's None, and "nothing yet" for a variable

(***************************************************************************)
(* Generic helpers.                                                        *)
(***************************************************************************)
\* all sequences over S of length at most n
SeqsUpTo(S, n) == UNION {[1..k -> S] : k \in 0..n}

\* values of a sequence (Series.unique() as a set; its length is the set's size)
Valeurs(s) == {s[i] : i \in 1..Len(s)}

\* lexicographic order on date triples (str < str on ISO dates)
IsoLt(a, b) ==
    \/ a[1] < b[1]
    \/ a[1] = b[1] /\ a[2] < b[2]
    \/ a[1] = b[1] /\ a[2] = b[2] /\ a[3] < b[3]


(***************************************************************************)
(* Data of the archive of decrees (CSV read by get_arretes).               *)
(* A row has the columns departement, date_debut, date_fin and the two     *)
(* text columns zones_alerte.niveau_gravite and zones_alerte.type.  A text *)
(* cell is either the text of a Python list literal (lit = TRUE, val = the *)
(* items of the list) or any other text (lit = FALSE, val = the text).     *)
(* Both cells of a row are written from the same list of zones, so they    *)
(* have the same number of items.                                          *)
(***************************************************************************)
NaN == "NaN"

\* an empty date field of the CSV (read as NaN)
NaD == <<>>

codes_niveau == <<"vigilance", "alerte", "alerte_renforcee", "crise">>

Todays == {<<2025, 1, 15>>, <<2025, 7, 4>>}

ArchiveDepts == {"01", "59"}

\* validity periods <<date_debut, date_fin>>; several end points fall on the
\* first day of a month that the indicators look at
Periodes == {<< <<2024, 6, 1>>,  <<2025, 6, 1>> >>,
             << <<2024, 12, 1>>, <<2025, 12, 31>> >>,
             << <<2023, 11, 1>>, <<2024, 7, 1>> >>}

CellList(items) == [lit |-> TRUE, val |-> items]
CellText(text)  == [lit |-> FALSE, val |-> text]

\* pairs <<zones_alerte.niveau_gravite, zones_alerte.type>> of one row
ZoneCells == {<<CellText("crise"), CellText("SUP")>>,
              <<CellList(<<"alerte_renforcee", "crise">>), CellList(<<"SUP", "SOU">>)>>,
              <<CellList(<<"vigilance", "alerte">>), CellList(<<"SUP", "SUP">>)>>,
              <<CellList(<<>>), CellList(<<>>)>>}

ArchiveRows ==
    {[departement |-> d, date_debut |-> p[1], date_fin |-> p[2],
      niveau_gravite |-> z[1], type |-> z[2]] :
        d \in ArchiveDepts, p \in Periodes, z \in ZoneCells}

Archives == SeqsUpTo(ArchiveRows, MaxRows)

(***************************************************************************)
(* safe_literal_eval, DataFrame.explode and calculer_dept_arretes_date.    *)
(***************************************************************************)
\* ast.literal_eval succeeds on a list literal and gives the list; on any
\* other text it raises and the text is wrapped in a one-element list
safe_literal_eval(value) == IF value.lit THEN value.val ELSE <<value.val>>

\* explode that pairs every level with the type of the first position
ExploserLigne_PremierType(r) ==
    IF Len(r.niveau_gravite) = 0
    THEN <<[r EXCEPT !.niveau_gravite = NaN, !.type = NaN]>>
    ELSE [i \in 1..Len(r.niveau_gravite) |->
            [r EXCEPT !.niveau_gravite = r.niveau_gravite[i], !.type = r.type[1]]]

\* rows produced by explode for one row whose two cells hold lists:
\* one row per position (level and type of the same position), and one
\* row of NaN when the lists are empty
ExploserLigne(r) ==
    IF Len(r.niveau_gravite) = 0
    THEN <<[r EXCEPT !.niveau_gravite = NaN, !.type = NaN]>>
    ELSE [i \in 1..Len(r.niveau_gravite) |->
            [r EXCEPT !.niveau_gravite = r.niveau_gravite[i], !.type = r.type[i]]]

RECURSIVE Exploser(_)
Exploser(df) ==
    IF df = <<>> THEN <<>> ELSE ExploserLigne(Head(df)) \o Exploser(Tail(df))

EvalListes(df) ==
    [i \in 1..Len(df) |->
        [df[i] EXCEPT !.niveau_gravite = safe_literal_eval(df[i].niveau_gravite),
                      !.type = safe_literal_eval(df[i].type)]]

FiltreDates(df, date_compar) ==
    LET loc1 == SelectSeq(df, LAMBDA r : IsoLt(r.date_debut, date_compar))
    IN  IF loc1 # <<>>
        THEN SelectSeq(loc1, LAMBDA r : IsoLt(date_compar, r.date_fin))
        ELSE loc1

\* df.dropna(axis=0, how='any', subset='date_fin') on the table read from the CSV
get_arretes(csv) == SelectSeq(csv, LAMBDA r : r.date_fin # NaD)

calculer_dept_arretes_date(df, date_compar, niveaux) ==
    LET loc2 == FiltreDates(df, date_compar)
        loc3 == IF loc2 # <<>> THEN Exploser(EvalListes(loc2)) ELSE loc2
        loc4 == IF loc3 # <<>> THEN SelectSeq(loc3, LAMBDA r : r.type = "SUP") ELSE loc3
        non_vigi == SelectSeq(loc4, LAMBDA r : r.niveau_gravite \in niveaux)
    IN  IF loc4 # <<>> /\ non_vigi # <<>>
        THEN Cardinality({non_vigi[i].departement : i \in 1..Len(non_vigi)})
        ELSE 0

\* dt.date(year - 1, month, 1).isoformat()
DebutMoisAnPasse(d) == <<d[1] - 1, d[2], 1>>

\* today + relativedelta(months=-1, day=1): one month back, then day = 1
DebutMoisPrecedent(d) == IF d[2] = 1 THEN <<d[1] - 1, 12, 1>> ELSE <<d[1], d[2] - 1, 1>>

NiveauxAnPasse == {"alerte", "alerte renforcée", "crise"}

calculer_dept_arretes_an_passe(df, date_today) ==
    calculer_dept_arretes_date(df, DebutMoisAnPasse(date_today), NiveauxAnPasse)

(***************************************************************************)
(* Data of the restriction-zone layer and of the VNF department layer.     *)
(* A zone of the feed has an id that determines its attributes; the        *)
(* PMTiles file cuts a zone into tiles, one feature per tile, each with    *)
(* the attributes of the zone and the part of its polygon in that tile.    *)
(* A geometry is the set of the polygon parts it covers.                   *)
(***************************************************************************)
ZoneCatalogue ==
    {[id |-> 1, type |-> "SUP", departement |-> [code |-> "01"],  niveauGravite |-> "crise"],
     [id |-> 2, type |-> "SUP", departement |-> [code |-> "01"],  niveauGravite |-> "vigilance"],
     [id |-> 3, type |-> "SOU", departement |-> [code |-> "2A"],  niveauGravite |-> "alerte"],
     [id |-> 4, type |-> "SUP", departement |-> [code |-> "971"], niveauGravite |-> "alerte"],
     [id |-> 5, type |-> "SUP", departement |-> [code |-> "2A"],  niveauGravite |-> "alerte_renforcee"],
     [id |-> 6, type |-> "SUP", departement |-> [code |-> "59"],  niveauGravite |-> "vigilance"]}

Tuiles == {1, 2}

Feature(z, t) ==
    [id |-> z.id, type |-> z.type, departement |-> z.departement,
     niveauGravite |-> z.niveauGravite,
     arreteRestriction |-> [fichier |-> z.id],
     geometry |-> {<<z.id, t>>}]

Features == {Feature(z, t) : z \in ZoneCatalogue, t \in Tuiles}

Couches == SeqsUpTo(Features, MaxZones)

ZoneIds == {z.id : z \in ZoneCatalogue}

\* rows of departements_itineraires.gpkg: one row per department
VnfDepts == {[insee_dep |-> "01", nom |-> "Ain"],
             [insee_dep |-> "59", nom |-> "Nord"],
             [insee_dep |-> "2A", nom |-> "Corse-du-Sud"]}

CouchesDept ==
    {s \in SeqsUpTo(VnfDepts, MaxDepts) :
        \A i, j \in 1..Len(s) : i # j => s[i].insee_dep # s[j].insee_dep}

(***************************************************************************)
(* get_zones_secheresse.                                                   *)
(***************************************************************************)
\* GeoDataFrame.dissolve(by='id', aggfunc='first'): one row per id, in
\* increasing id order, the union of the geometries of the group and the
\* first value of every other column
DissoudreGroupe(g) ==
    [Head(g) EXCEPT !.geometry = UNION {g[i].geometry : i \in 1..Len(g)}]

RECURSIVE DissoudreDepuis(_, _, _)
DissoudreDepuis(gdf, k, kmax) ==
    IF k > kmax THEN <<>>
    ELSE LET g == SelectSeq(gdf, LAMBDA r : r.id = k)
         IN  (IF g = <<>> THEN <<>> ELSE <<DissoudreGroupe(g)>>)
             \o DissoudreDepuis(gdf, k + 1, kmax)

Dissoudre(gdf) ==
    IF gdf = <<>> THEN <<>>
    ELSE DissoudreDepuis(gdf, 1, CHOOSE m \in ZoneIds : \A n \in ZoneIds : n <= m)

\* gdf['insee_dept'] = gdf['departement'].apply(lambda x: json.loads(x)['code'])
AjouterInseeDept(gdf) ==
    [i \in 1..Len(gdf) |->
        [id |-> gdf[i].id, type |-> gdf[i].type, departement |-> gdf[i].departement,
         niveauGravite |-> gdf[i].niveauGravite,
         arreteRestriction |-> gdf[i].arreteRestriction,
         geometry |-> gdf[i].geometry,
         insee_dept |-> gdf[i].departement.code]]

LigneNaN ==
    [id |-> NaN, type |-> NaN, departement |-> NaN, niveauGravite |-> NaN,
     arreteRestriction |-> NaN, geometry |-> NaN, insee_dept |-> NaN]

\* the metropolitan filter with the bound off by one
FiltreMetropole_TroisCaracteres(gdf) ==
    [i \in 1..Len(gdf) |-> IF Len(gdf[i].insee_dept) <= 3 THEN gdf[i] ELSE LigneNaN]

\* gdf.where(cond): a row that fails the condition becomes a row of NaN
FiltreMetropole(gdf) ==
    [i \in 1..Len(gdf) |-> IF Len(gdf[i].insee_dept) < 3 THEN gdf[i] ELSE LigneNaN]

\* gdf.dropna(axis=0, subset='insee_dept')
DropnaInseeDept(gdf) == SelectSeq(gdf, LAMBDA r : r.insee_dept # NaN)

AjouterCheminFichier(gdf) ==
    [i \in 1..Len(gdf) |->
        [id |-> gdf[i].id, type |-> gdf[i].type, departement |-> gdf[i].departement,
         niveauGravite |-> gdf[i].niveauGravite,
         arreteRestriction |-> gdf[i].arreteRestriction,
         geometry |-> gdf[i].geometry,
         insee_dept |-> gdf[i].insee_dept,
         chemin_fichier |-> gdf[i].arreteRestriction.fichier]]

\* couche: the layer read from the uploaded file, or from the remote
\* PMTiles file when uploaded is None
get_zones_secheresse(uploaded, couche) ==
    LET traiter_pmtiles == (uploaded = None)
        sup   == SelectSeq(couche, LAMBDA r : r.type = "SUP")
        fusion == IF traiter_pmtiles THEN Dissoudre(sup) ELSE sup
    IN  AjouterCheminFichier(DropnaInseeDept(FiltreMetropole(AjouterInseeDept(fusion))))

(***************************************************************************)
(* Indicators computed on the current zones.                               *)
(* A text built by str.join is the sequence of its joined pieces; the      *)
(* empty text is the empty sequence.                                       *)
(***************************************************************************)
\* sep.join(items)
RECURSIVE Join(_, _)
Join(sep, items) ==
    IF items = <<>> THEN <<>>
    ELSE IF Len(items) = 1 THEN <<items[1]>>
    ELSE <<items[1], sep>> \o Join(sep, Tail(items))

Colonne(df, c) == [i \in 1..Len(df) |-> df[i][c]]

\* counts the zones instead of their departments
calculer_dept_zone_restrict_NbZones(zones) ==
    Len(SelectSeq(zones, LAMBDA r : r.niveauGravite # "vigilance"))

calculer_dept_zone_restrict(zones) ==
    LET zones_non_vigilance == SelectSeq(zones, LAMBDA r : r.niveauGravite # "vigilance")
    IN  IF zones_non_vigilance # <<>>
        THEN Cardinality(Valeurs(Colonne(zones_non_vigilance, "insee_dept")))
        ELSE 0

\* counts the departments of the zones without restricting them to the layer
calculer_dept_zone_vnf_niveau_SansReseau(zones, depts, niveau) ==
    LET zones_filtres == SelectSeq(zones, LAMBDA r : r.niveauGravite = niveau)
        dept_filtre   == Valeurs(Colonne(zones_filtres, "insee_dept"))
        dept_resultat == SelectSeq(depts, LAMBDA r : r.insee_dep \in dept_filtre)
    IN  IF zones_filtres # <<>>
        THEN <<Cardinality(dept_filtre), Join(", ", Colonne(dept_resultat, "nom"))>>
        ELSE <<0, <<>> >>

calculer_dept_zone_vnf_niveau(zones, depts, niveau) ==
    LET zones_filtres == SelectSeq(zones, LAMBDA r : r.niveauGravite = niveau)
        dept_filtre   == Valeurs(Colonne(zones_filtres, "insee_dept"))
        dept_resultat == SelectSeq(depts, LAMBDA r : r.insee_dep \in dept_filtre)
    IN  IF zones_filtres # <<>> /\ dept_resultat # <<>>
        THEN <<Len(dept_resultat), Join(", ", Colonne(dept_resultat, "nom"))>>
        ELSE <<0, <<>> >>

(***************************************************************************)
(* construire_table_indic.                                                 *)
(***************************************************************************)
ColonnesIndic == <<"dept_fr",
                   "dept_vnf_crise_code", "dept_vnf_crise_nom",
                   "dept_vnf_ar_code", "dept_vnf_ar_nom",
                   "dept_vnf_a_code", "dept_vnf_a_nom",
                   "dept_vnf_vg_code", "dept_vnf_vg_nom">>

\* df.loc[name] = valeurs: the values are assigned to the columns by position
LigneIndic(colonnes, valeurs) ==
    [c \in Valeurs(colonnes) |->
        valeurs[CHOOSE i \in 1..Len(colonnes) : colonnes[i] = c]]

NiveauxMoisPrecedent == {"alerte", "alerte_renforcee", "crise"}

\* row 'annee_courante': the counts on the current zones
LigneAnneeCourante(zones, depts) ==
    LET nb_dept_r_z       == calculer_dept_zone_restrict(zones)
        nb_dept_vnf_crise == calculer_dept_zone_vnf_niveau(zones, depts, "crise")
        nb_dept_vnf_ar    == calculer_dept_zone_vnf_niveau(zones, depts, "alerte_renforcee")
        nb_dept_vnf_a     == calculer_dept_zone_vnf_niveau(zones, depts, "alerte")
        nb_dept_vnf_vg    == calculer_dept_zone_vnf_niveau(zones, depts, "vigilance")
    IN  LigneIndic(ColonnesIndic,
            <<nb_dept_r_z,
              nb_dept_vnf_crise[1], nb_dept_vnf_crise[2],
              nb_dept_vnf_ar[1], nb_dept_vnf_ar[2],
              nb_dept_vnf_a[1], nb_dept_vnf_a[2],
              nb_dept_vnf_vg[1], nb_dept_vnf_vg[2]>>)

\* the row of the previous year filled with the count in every code column
LigneAnneePrecedente_PartoutCompte(df, date_today) ==
    LET nb_dept_an_passe == calculer_dept_arretes_date(df, DebutMoisAnPasse(date_today),
                                                       NiveauxMoisPrecedent)
    IN  LigneIndic(ColonnesIndic,
            <<nb_dept_an_passe, nb_dept_an_passe, <<>>, nb_dept_an_passe, <<>>,
              nb_dept_an_passe, <<>>, nb_dept_an_passe, <<>> >>)

\* row 'annee_precedente': the count of the previous year, nothing else
LigneAnneePrecedente(df, date_today) ==
    LET nb_dept_an_passe == calculer_dept_arretes_an_passe(df, date_today)
    IN  LigneIndic(ColonnesIndic,
            <<nb_dept_an_passe, 0, <<>>, 0, <<>>, 0, <<>>, 0, <<>> >>)

\* row 'mois_precedent': the archive counts on the first day of the previous month
LigneMoisPrecedent(df, date_today) ==
    LET date_compar       == DebutMoisPrecedent(date_today)
        mois_prec(niveaux) == calculer_dept_arretes_date(df, date_compar, niveaux)
    IN  LigneIndic(ColonnesIndic,
            <<mois_prec(NiveauxMoisPrecedent),
              mois_prec({"crise"}), <<>>,
              mois_prec({"alerte_renforcee"}), <<>>,
              mois_prec({"alerte"}), <<>>,
              mois_prec({"vigilance"}), <<>> >>)

construire_table_indic(df, zones, depts, date_today) ==
    [colonnes |-> ColonnesIndic,
     index |-> <<"annee_courante", "annee_precedente", "mois_precedent">>,
     loc |-> [annee_courante   |-> LigneAnneeCourante(zones, depts),
              annee_precedente |-> LigneAnneePrecedente(df, date_today),
              mois_precedent   |-> LigneMoisPrecedent(df, date_today)]]

(***************************************************************************)
(* State of the script between two runs, used by the specifications that   *)
(* study one function on its own.                                          *)
(***************************************************************************)
Absent == [present |-> FALSE]
EnCache(v) == [present |-> TRUE, val |-> v]

CacheVide == [itineraire |-> Absent, dept_iti |-> Absent, fichier |-> Absent, arretes |-> Absent]

Repos ==
    /\ pc = "fin"
    /\ session_state = [construire_carte |-> "False"]
    /\ cache = CacheVide
    /\ uploaded_file = None
    /\ today = None
    /\ data_load_state = ""
    /\ itineraire = None
    /\ dept_iti = None
    /\ zones_arretes = None
    /\ df_arretes = None
    /\ table_indic = None
    /\ carte = None
    /\ tab1 = None
    /\ tab2 = None
    /\ appels = {}
    /\ echec = None

PasAppele == [fn |-> None]

(***************************************************************************)
(* SpecArretes: calculer_dept_arretes_date and                             *)
(* calculer_dept_arretes_an_passe applied to every archive of the bounds.  *)
(***************************************************************************)
DatesCompar == {DebutMoisAnPasse(t) : t \in Todays} \cup {DebutMoisPrecedent(t) : t \in Todays}

ListesNiveaux == {NiveauxMoisPrecedent, NiveauxAnPasse, {"crise"}, {"vigilance"}}

InitArretes ==
    /\ Repos
    /\ arg \in {[df_arretes |-> a] : a \in Archives}
    /\ ret = PasAppele

AppelArretesDate ==
    /\ ret.fn = None
    /\ \E d \in DatesCompar, n \in ListesNiveaux :
          ret' = [fn |-> "calculer_dept_arretes_date", date_compar |-> d, niveaux |-> n,
                  resultat |-> calculer_dept_arretes_date(arg.df_arretes, d, n)]
    /\ UNCHANGED <<arg, mainVars>>

AppelArretesAnPasse ==
    /\ ret.fn = None
    /\ \E t \in Todays :
          ret' = [fn |-> "calculer_dept_arretes_an_passe", date_today |-> t,
                  resultat |-> calculer_dept_arretes_an_passe(arg.df_arretes, t)]
    /\ UNCHANGED <<arg, mainVars>>

NextArretes == AppelArretesDate \/ AppelArretesAnPasse

SpecArretes == InitArretes /\ [][NextArretes]_vars

(***************************************************************************)
(* Properties of the archive counts.                                       *)
(***************************************************************************)
\* zone entries <<level, type>> of an archive row, position by position
EntreesZone(r) ==
    IF r.niveau_gravite.lit
    THEN {<<r.niveau_gravite.val[i], r.type.val[i]>> : i \in 1..Len(r.niveau_gravite.val)}
    ELSE {<<r.niveau_gravite.val, r.type.val>>}

\* departments with a decree in force strictly around d that has a
\* surface-water zone entry at one of the levels
DeptsEnVigueur(df, d, niveaux) ==
    {df[i].departement : i \in
        {j \in 1..Len(df) :
            /\ IsoLt(df[j].date_debut, d)
            /\ IsoLt(d, df[j].date_fin)
            /\ \E e \in EntreesZone(df[j]) : e[2] = "SUP" /\ e[1] \in niveaux}}

\* C3: calculer_dept_arretes_date(df, d, N) is the number of distinct
\* departments among the decrees with date_debut < d < date_fin that have a
\* zone entry of type 'SUP' whose level, at the same position, is in N
\* (0 when nothing survives a filter step).
C3_CompteDeptsEnVigueur ==
    ret.fn = "calculer_dept_arretes_date" =>
        ret.resultat = Cardinality(DeptsEnVigueur(arg.df_arretes, ret.date_compar, ret.niveaux))

\* a two-row archive of two departments, one row with a two-entry list,
\* of which exactly one department is counted
C3_Witness ==
    /\ ret.fn = "calculer_dept_arretes_date"
    /\ ret.resultat = 1
    /\ Len(arg.df_arretes) = 2
    /\ arg.df_arretes[1].departement # arg.df_arretes[2].departement
    /\ \E i \in 1..2 : /\ arg.df_arretes[i].niveau_gravite.lit
                        /\ Len(arg.df_arretes[i].niveau_gravite.val) = 2

\* C6: calculer_dept_arretes_an_passe(df) counts, on the first day of the
\* current month of the previous year, the decrees at the levels alerte,
\* alerte_renforcee and crise, as the prior-month count does for its date.
C6_AnPasseTousNiveaux ==
    ret.fn = "calculer_dept_arretes_an_passe" =>
        ret.resultat = calculer_dept_arretes_date(arg.df_arretes,
                           DebutMoisAnPasse(ret.date_today), NiveauxMoisPrecedent)

(***************************************************************************)
(* SpecZones: get_zones_secheresse on both load paths.                     *)
(***************************************************************************)
InitZones ==
    /\ Repos
    /\ arg \in {[couche |-> c] : c \in Couches}
    /\ ret = PasAppele

AppelZonesFichier ==
    /\ ret.fn = None
    /\ ret' = [fn |-> "get_zones_secheresse", uploaded_file |-> "zones.zip",
               resultat |-> get_zones_secheresse("zones.zip", arg.couche)]
    /\ UNCHANGED <<arg, mainVars>>

AppelZonesPmtiles ==
    /\ ret.fn = None
    /\ ret' = [fn |-> "get_zones_secheresse", uploaded_file |-> None,
               resultat |-> get_zones_secheresse(None, arg.couche)]
    /\ UNCHANGED <<arg, mainVars>>

NextZones == AppelZonesFichier \/ AppelZonesPmtiles

SpecZones == InitZones /\ [][NextZones]_vars

\* C9: on both load paths every returned zone has type 'SUP' and a
\* department code of fewer than 3 characters, and every input feature of
\* type 'SUP' with such a code is represented in the result: a returned
\* zone has its id, its attributes and covers its geometry.
C9_ZonesSupMetropole ==
    ret.fn = "get_zones_secheresse" =>
        /\ \A i \in 1..Len(ret.resultat) :
              /\ ret.resultat[i].type = "SUP"
              /\ Len(ret.resultat[i].insee_dept) < 3
              /\ ret.resultat[i].insee_dept = ret.resultat[i].departement.code
        /\ \A j \in 1..Len(arg.couche) :
              (arg.couche[j].type = "SUP" /\ Len(arg.couche[j].departement.code) < 3) =>
                  \E i \in 1..Len(ret.resultat) :
                      /\ ret.resultat[i].id = arg.couche[j].id
                      /\ ret.resultat[i].niveauGravite = arg.couche[j].niveauGravite
                      /\ ret.resultat[i].departement = arg.couche[j].departement
                      /\ arg.couche[j].geometry \subseteq ret.resultat[i].geometry

\* the PMTiles path merged the two tiles of a kept zone, next to a dropped feature
C9_Witness ==
    /\ ret.fn = "get_zones_secheresse"
    /\ ret.uploaded_file = None
    /\ Len(arg.couche) = 2
    /\ Len(ret.resultat) = 1
    /\ Cardinality(ret.resultat[1].geometry) = 2

(***************************************************************************)
(* SpecIndic: the two counts on the current zones, applied to every layer  *)
(* get_zones_secheresse can return and every VNF department layer.         *)
(***************************************************************************)
ZonesChargees == {get_zones_secheresse(u, c) : u \in {None, "zones.zip"}, c \in Couches}

InitIndic ==
    /\ Repos
    /\ arg \in {[zones_arretes |-> z, dept_iti |-> d] : z \in ZonesChargees, d \in CouchesDept}
    /\ ret = PasAppele

AppelZoneRestrict ==
    /\ ret.fn = None
    /\ ret' = [fn |-> "calculer_dept_zone_restrict",
               resultat |-> calculer_dept_zone_restrict(arg.zones_arretes)]
    /\ UNCHANGED <<arg, mainVars>>

AppelZoneVnfNiveau ==
    /\ ret.fn = None
    /\ \E n \in Valeurs(codes_niveau) :
          ret' = [fn |-> "calculer_dept_zone_vnf_niveau", niveau |-> n,
                  resultat |-> calculer_dept_zone_vnf_niveau(arg.zones_arretes, arg.dept_iti, n)]
    /\ UNCHANGED <<arg, mainVars>>

NextIndic == AppelZoneRestrict \/ AppelZoneVnfNiveau

SpecIndic == InitIndic /\ [][NextIndic]_vars

AuDelaVigilance == {"alerte", "alerte_renforcee", "crise"}

\* C4: calculer_dept_zone_restrict(zones) is the number of distinct
\* insee_dept codes that have a zone at a level beyond vigilance, and 0
\* when every zone is at 'vigilance' or the layer is empty.
C4_DeptsAuDelaVigilance ==
    ret.fn = "calculer_dept_zone_restrict" =>
        ret.resultat =
            Cardinality({arg.zones_arretes[i].insee_dept : i \in
                {j \in 1..Len(arg.zones_arretes) :
                    arg.zones_arretes[j].niveauGravite \in AuDelaVigilance}})

\* two zones beyond vigilance in one department, counted once
C4_Witness ==
    /\ ret.fn = "calculer_dept_zone_restrict"
    /\ ret.resultat = 1
    /\ Len(arg.zones_arretes) = 2
    /\ \A i \in 1..2 : arg.zones_arretes[i].niveauGravite # "vigilance"

\* rows of the VNF layer whose department has a zone at the level
DeptsVnfAuNiveau(zones, depts, niveau) ==
    {i \in 1..Len(depts) :
        \E j \in 1..Len(zones) : /\ zones[j].niveauGravite = niveau
                                 /\ zones[j].insee_dept = depts[i].insee_dep}

\* C5: calculer_dept_zone_vnf_niveau(zones, dept_iti, niveau) = (n, names)
\* with n the number of departments of dept_iti that have a zone at that
\* level and names the ', '-joined names of exactly those n departments;
\* (0, '') when there is none.
C5_DeptsVnfNiveau ==
    ret.fn = "calculer_dept_zone_vnf_niveau" =>
        LET S     == DeptsVnfAuNiveau(arg.zones_arretes, arg.dept_iti, ret.niveau)
            n     == ret.resultat[1]
            names == ret.resultat[2]
        IN  /\ n = Cardinality(S)
            /\ Len(names) = IF n = 0 THEN 0 ELSE 2 * n - 1
            /\ \A k \in 1..Len(names) : (k % 2 = 0) => names[k] = ", "
            /\ {names[k] : k \in {m \in 1..Len(names) : m % 2 = 1}}
                  = {arg.dept_iti[i].nom : i \in S}

\* two departments of the layer are at the level, and a zone at that level
\* lies in no department of the layer
C5_Witness ==
    /\ ret.fn = "calculer_dept_zone_vnf_niveau"
    /\ ret.resultat[1] = 2
    /\ Len(ret.resultat[2]) = 3

\* a zone at the level lies outside the layer and is not counted
C5_WitnessHorsReseau ==
    /\ ret.fn = "calculer_dept_zone_vnf_niveau"
    /\ ret.resultat[1] = 1
    /\ \E j \in 1..Len(arg.zones_arretes) :
          /\ arg.zones_arretes[j].niveauGravite = ret.niveau
          /\ \A i \in 1..Len(arg.dept_iti) :
                arg.dept_iti[i].insee_dep # arg.zones_arretes[j].insee_dept

(***************************************************************************)
(* SpecTable: construire_table_indic on archives, zone layers and VNF      *)
(* layers drawn from a part of the rows and features above.                *)
(***************************************************************************)
RowsTable ==
    {r \in ArchiveRows :
        /\ r.date_debut \in {<<2024, 6, 1>>, <<2024, 12, 1>>}
        /\ \/ ~r.niveau_gravite.lit
           \/ r.type.val = <<"SUP", "SOU">>}

FeaturesTable == {Feature(z, 1) : z \in {c \in ZoneCatalogue : c.id \in {1, 5, 6}}}

ArchivesTable == SeqsUpTo(RowsTable, MaxRows)

ZonesTable == {get_zones_secheresse(None, c) : c \in SeqsUpTo(FeaturesTable, MaxZones)}

InitTable ==
    /\ Repos
    /\ arg \in {[df_arretes |-> a, zones_arretes |-> z, dept_iti |-> d] :
                    a \in ArchivesTable, z \in ZonesTable, d \in CouchesDept}
    /\ ret = PasAppele

AppelTableIndic ==
    /\ ret.fn = None
    /\ \E t \in Todays :
          ret' = [fn |-> "construire_table_indic", date_today |-> t,
                  resultat |-> construire_table_indic(arg.df_arretes, arg.zones_arretes,
                                                      arg.dept_iti, t)]
    /\ UNCHANGED <<arg, mainVars>>

NextTable == AppelTableIndic

SpecTable == InitTable /\ [][NextTable]_vars

ColonnesCode == {"dept_vnf_crise_code", "dept_vnf_ar_code", "dept_vnf_a_code", "dept_vnf_vg_code"}
ColonnesNom  == {"dept_vnf_crise_nom", "dept_vnf_ar_nom", "dept_vnf_a_nom", "dept_vnf_vg_nom"}

NiveauDeColonne ==
    [dept_vnf_crise_code |-> "crise", dept_vnf_ar_code |-> "alerte_renforcee",
     dept_vnf_a_code |-> "alerte", dept_vnf_vg_code |-> "vigilance"]

\* C7: in the 'mois_precedent' row every dept_vnf_*_code is the number of
\* departments of the VNF network (present in dept_iti) at that level on
\* the first day of the previous month.
C7_MoisPrecedentReseauVnf ==
    ret.fn = "construire_table_indic" =>
        \A c \in ColonnesCode :
            ret.resultat.loc.mois_precedent[c] =
                Cardinality(
                    DeptsEnVigueur(arg.df_arretes, DebutMoisPrecedent(ret.date_today),
                                   {NiveauDeColonne[c]})
                    \cap {arg.dept_iti[i].insee_dep : i \in 1..Len(arg.dept_iti)})

\* C8: the table has exactly the rows 'annee_courante', 'annee_precedente',
\* 'mois_precedent' and the nine documented columns; outside the
\* 'annee_courante' row the four *_nom columns are empty, and in the
\* 'annee_precedente' row every dept_vnf_*_code is 0.
C8_FormeTable ==
    ret.fn = "construire_table_indic" =>
        LET t == ret.resultat
        IN  /\ t.index = <<"annee_courante", "annee_precedente", "mois_precedent">>
            /\ DOMAIN t.loc = Valeurs(t.index)
            /\ t.colonnes = ColonnesIndic
            /\ Len(t.colonnes) = 9
            /\ \A l \in DOMAIN t.loc : DOMAIN t.loc[l] = {"dept_fr"} \cup ColonnesCode \cup ColonnesNom
            /\ \A c \in ColonnesNom :
                  /\ t.loc.annee_precedente[c] = <<>>
                  /\ t.loc.mois_precedent[c] = <<>>
            /\ \A c \in ColonnesCode : t.loc.annee_precedente[c] = 0

\* a table whose current row names a department, whose previous-year count
\* and previous-month counts are positive
C8_Witness ==
    /\ ret.fn = "construire_table_indic"
    /\ \E c \in ColonnesNom : ret.resultat.loc.annee_courante[c] # <<>>
    /\ ret.resultat.loc.annee_precedente["dept_fr"] > 0
    /\ \E c \in ColonnesCode : ret.resultat.loc.mois_precedent[c] > 0

(***************************************************************************)
(* construire_carte and inserer_indic_dept: what they put on the page.     *)
(***************************************************************************)
couleurs == <<"#ffeda0", "#feb24c", "#fc4e2a", "#b10026">>

CouleurNiveau(niveau) ==
    IF \E i \in 1..Len(codes_niveau) : codes_niveau[i] = niveau
    THEN couleurs[CHOOSE i \in 1..Len(codes_niveau) : codes_niveau[i] = niveau]
    ELSE NaN

\* the layers of the folium map, in the order they are added, and its title
construire_carte(iti, zones, depts, uploaded, date_today) ==
    [couches |-> <<[name |-> "Départements réseau VNF", data |-> depts],
                   [name |-> "Zones d'arrêtés sécheresse",
                    data |-> [i \in 1..Len(zones) |->
                                [id |-> zones[i].id,
                                 niveauGravite |-> zones[i].niveauGravite,
                                 departement |-> zones[i].departement,
                                 couleur |-> CouleurNiveau(zones[i].niveauGravite)]]],
                   [name |-> "Itinéraire COP", data |-> iti]>>,
     titre |-> IF uploaded = None
               THEN <<"Zones d'arrêtés sécheresse", "en date du", date_today>>
               ELSE <<"Zones d'arrêtés sécheresse">>]

_signe_devant(valeur) ==
    IF valeur < 0 THEN "\\- " ELSE IF valeur > 0 THEN "\\+ " ELSE ""

Abs(x) == IF x < 0 THEN 0 - x ELSE x

\* what is written about the difference with the previous month for a column
EcartMois(table, c) ==
    LET diff_indic_mois == table.loc.annee_courante[c] - table.loc.mois_precedent[c]
        signe == _signe_devant(diff_indic_mois)
    IN  IF signe = ""
        THEN <<"nombre de départements identique par rapport au mois dernier">>
        ELSE <<signe, Abs(diff_indic_mois), "départements en arrêté par rapport au mois dernier">>

ListeDept(table, code, nom) ==
    IF table.loc.annee_courante[code] > 0 THEN table.loc.annee_courante[nom] ELSE <<>>

inserer_indic_dept(table) ==
    [ligne1 |-> <<table.loc.annee_courante["dept_fr"],
                  EcartMois(table, "dept_fr"),
                  table.loc.annee_precedente["dept_fr"]>>,
     ligne2 |-> <<table.loc.annee_courante["dept_vnf_vg_code"],
                  table.loc.annee_courante["dept_vnf_a_code"],
                  table.loc.annee_courante["dept_vnf_ar_code"],
                  table.loc.annee_courante["dept_vnf_crise_code"]>>,
     ligne3 |-> <<EcartMois(table, "dept_vnf_vg_code"),
                  EcartMois(table, "dept_vnf_a_code"),
                  EcartMois(table, "dept_vnf_ar_code"),
                  EcartMois(table, "dept_vnf_crise_code")>>,
     ligne4 |-> <<ListeDept(table, "dept_vnf_a_code", "dept_vnf_a_nom"),
                  ListeDept(table, "dept_vnf_ar_code", "dept_vnf_ar_nom"),
                  ListeDept(table, "dept_vnf_crise_code", "dept_vnf_crise_nom")>>]

(***************************************************************************)
(* main(): one run of the script, statement group by statement group, and  *)
(* the two widgets of the sidebar that start a new run.                    *)
(* Coordinate systems are not modelled: to_crs leaves the rows unchanged.  *)
(***************************************************************************)
MsgChargement  == "Chargement des données..."
MsgCharge      == "Chargement des données...Terminé !"
MsgEchec       == "Echec du téléchargement des données des arrêtés"
MsgCarte       == "Construction carte...Terminé !"
MsgVisuCarte   == "Visualisation carte...Terminé !"
MsgVisuIndic   == ""

CoucheItineraire == <<[nom |-> "Itinéraire COP"]>>

\* contents the files and the remote resources can have in a run of main
CouchesDeptMain == {<<>>} \cup {s \in CouchesDept : Len(s) > 0 /\ s[1].insee_dep = "01"}

CouchesMain == {<<>>,
                <<Feature(CHOOSE z \in ZoneCatalogue : z.id = 1, 1),
                  Feature(CHOOSE z \in ZoneCatalogue : z.id = 1, 2)>>,
                <<Feature(CHOOSE z \in ZoneCatalogue : z.id = 5, 1),
                  Feature(CHOOSE z \in ZoneCatalogue : z.id = 4, 1)>>}

LigneSansDateFin ==
    [departement |-> "59", date_debut |-> <<2024, 6, 1>>, date_fin |-> NaD,
     niveau_gravite |-> CellText("crise"), type |-> CellText("SUP")]

LigneEnVigueur ==
    [departement |-> "01", date_debut |-> <<2024, 6, 1>>, date_fin |-> <<2025, 6, 1>>,
     niveau_gravite |-> CellList(<<"alerte_renforcee", "crise">>),
     type |-> CellList(<<"SUP", "SOU">>)]

CsvMain == {<<>>, <<LigneSansDateFin>>, <<LigneEnVigueur>>, <<LigneSansDateFin, LigneEnVigueur>>}

Init ==
    /\ pc = "debut"
    /\ session_state = <<>>
    /\ cache = CacheVide
    /\ uploaded_file = None
    /\ today = None
    /\ data_load_state = ""
    /\ itineraire = None
    /\ dept_iti = None
    /\ zones_arretes = None
    /\ df_arretes = None
    /\ table_indic = None
    /\ carte = None
    /\ tab1 = None
    /\ tab2 = None
    /\ appels = {}
    /\ echec = None
    /\ arg = None
    /\ ret = PasAppele

\* lines 742-768: page, sidebar, session state, tabs and status text
MainDebut ==
    /\ pc = "debut"
    /\ session_state' = IF "construire_carte" \in DOMAIN session_state
                        THEN session_state
                        ELSE [construire_carte |-> None]
    /\ today' \in Todays
    /\ data_load_state' = MsgChargement
    /\ itineraire' = None
    /\ dept_iti' = None
    /\ zones_arretes' = None
    /\ df_arretes' = None
    /\ table_indic' = None
    /\ carte' = None
    /\ tab1' = None
    /\ tab2' = None
    /\ appels' = {}
    /\ echec' = None
    /\ pc' = "lire_itineraire"
    /\ UNCHANGED <<cache, uploaded_file, arg, ret>>

\* lines 770-772: lire_geopandas on the itinerary file (cached)
LireItineraire ==
    /\ pc = "lire_itineraire"
    /\ IF cache.itineraire.present
       THEN /\ itineraire' = cache.itineraire.val
            /\ pc' = "lire_dept_iti"
            /\ UNCHANGED <<cache, echec>>
       ELSE \/ /\ itineraire' = CoucheItineraire
               /\ cache' = [cache EXCEPT !.itineraire = EnCache(CoucheItineraire)]
               /\ pc' = "lire_dept_iti"
               /\ UNCHANGED echec
            \/ /\ echec' = "lire_geopandas"
               /\ pc' = "exception"
               /\ UNCHANGED <<itineraire, cache>>
    /\ UNCHANGED <<session_state, uploaded_file, today, data_load_state, dept_iti,
                   zones_arretes, df_arretes, table_indic, carte, tab1, tab2, appels,
                   arg, ret>>

\* lines 773-778: lire_geopandas on the department file (cached), then to_crs
LireDeptIti ==
    /\ pc = "lire_dept_iti"
    /\ IF cache.dept_iti.present
       THEN /\ dept_iti' = cache.dept_iti.val
            /\ pc' = "get_zones"
            /\ UNCHANGED <<cache, echec>>
       ELSE \/ \E d \in CouchesDeptMain :
                 /\ dept_iti' = d
                 /\ cache' = [cache EXCEPT !.dept_iti = EnCache(d)]
                 /\ pc' = "get_zones"
                 /\ UNCHANGED echec
            \/ /\ echec' = "lire_geopandas"
               /\ pc' = "exception"
               /\ UNCHANGED <<dept_iti, cache>>
    /\ UNCHANGED <<session_state, uploaded_file, today, data_load_state, itineraire,
                   zones_arretes, df_arretes, table_indic, carte, tab1, tab2, appels,
                   arg, ret>>

\* the zone fetch with its failure caught: an empty layer and the run goes on
GetZones_EchecRattrape ==
    /\ pc = "get_zones"
    /\ \/ \E c \in CouchesMain :
             /\ zones_arretes' = get_zones_secheresse(uploaded_file, c)
             /\ UNCHANGED echec
       \/ /\ echec' = "get_zones_secheresse"
          /\ zones_arretes' = <<>>
    /\ pc' = "get_arretes"
    /\ UNCHANGED <<session_state, cache, uploaded_file, today, data_load_state, itineraire,
                   dept_iti, df_arretes, table_indic, carte, tab1, tab2, appels,
                   arg, ret>>

\* lines 779-782: get_zones_secheresse(uploaded_file), then to_crs.
\* The uploaded file is read through lire_geopandas (cached); the remote
\* PMTiles file is requested at every run.  No failure is caught.
GetZones ==
    /\ pc = "get_zones"
    /\ IF uploaded_file # None /\ cache.fichier.present
       THEN /\ zones_arretes' = get_zones_secheresse(uploaded_file, cache.fichier.val)
            /\ pc' = "get_arretes"
            /\ UNCHANGED <<cache, echec>>
       ELSE \/ \E c \in CouchesMain :
                 /\ zones_arretes' = get_zones_secheresse(uploaded_file, c)
                 /\ cache' = IF uploaded_file # None
                             THEN [cache EXCEPT !.fichier = EnCache(c)]
                             ELSE cache
                 /\ pc' = "get_arretes"
                 /\ UNCHANGED echec
            \/ /\ echec' = "get_zones_secheresse"
               /\ pc' = "exception"
               /\ UNCHANGED <<zones_arretes, cache>>
    /\ UNCHANGED <<session_state, uploaded_file, today, data_load_state, itineraire,
                   dept_iti, df_arretes, table_indic, carte, tab1, tab2, appels,
                   arg, ret>>

\* the archive download without its try/except: the exception leaves main
GetArretes_SansTry ==
    /\ pc = "get_arretes"
    /\ \/ \E csv \in CsvMain :
             /\ df_arretes' = get_arretes(csv)
             /\ pc' = "fin_chargement"
             /\ UNCHANGED echec
       \/ /\ echec' = "get_arretes"
          /\ pc' = "exception"
          /\ UNCHANGED df_arretes
    /\ UNCHANGED <<session_state, cache, uploaded_file, today, data_load_state, itineraire,
                   dept_iti, zones_arretes, table_indic, carte, tab1, tab2, appels, arg, ret>>

\* lines 784-790: try get_arretes() (cached) except Exception
GetArretes ==
    /\ pc = "get_arretes"
    /\ IF cache.arretes.present
       THEN /\ df_arretes' = cache.arretes.val
            /\ UNCHANGED <<cache, echec, data_load_state>>
       ELSE \/ \E csv \in CsvMain :
                 /\ df_arretes' = get_arretes(csv)
                 /\ cache' = [cache EXCEPT !.arretes = EnCache(get_arretes(csv))]
                 /\ UNCHANGED <<echec, data_load_state>>
            \/ /\ echec' = "get_arretes"
               /\ data_load_state' = MsgEchec
               /\ df_arretes' = <<>>
               /\ UNCHANGED cache
    /\ pc' = "fin_chargement"
    /\ UNCHANGED <<session_state, uploaded_file, today, itineraire, dept_iti,
                   zones_arretes, table_indic, carte, tab1, tab2, appels, arg, ret>>

\* line 792
FinChargement ==
    /\ pc = "fin_chargement"
    /\ data_load_state' = MsgCharge
    /\ pc' = "table_indic"
    /\ UNCHANGED <<session_state, cache, uploaded_file, today, itineraire, dept_iti,
                   zones_arretes, df_arretes, table_indic, carte, tab1, tab2, appels,
                   echec, arg, ret>>

\* lines 794-796
ConstruireTableIndic ==
    /\ pc = "table_indic"
    /\ IF df_arretes # <<>>
       THEN /\ table_indic' = construire_table_indic(df_arretes, zones_arretes, dept_iti, today)
            /\ appels' = appels \cup {"construire_table_indic"}
       ELSE UNCHANGED <<table_indic, appels>>
    /\ pc' = "carte"
    /\ UNCHANGED <<session_state, cache, uploaded_file, today, data_load_state, itineraire,
                   dept_iti, zones_arretes, df_arretes, carte, tab1, tab2, echec, arg, ret>>

\* lines 798-802
ConstruireCarte ==
    /\ pc = "carte"
    /\ IF session_state.construire_carte = "True"
       THEN /\ carte' = construire_carte(itineraire, zones_arretes, dept_iti,
                                          uploaded_file, today)
            /\ data_load_state' = MsgCarte
            /\ appels' = appels \cup {"construire_carte"}
            /\ pc' = "tab1"
       ELSE /\ pc' = "fin"
            /\ UNCHANGED <<carte, data_load_state, appels>>
    /\ UNCHANGED <<session_state, cache, uploaded_file, today, itineraire, dept_iti,
                   zones_arretes, df_arretes, table_indic, tab1, tab2, echec, arg, ret>>

\* lines 804-812: st_folium in tab1
AfficherCarte ==
    /\ pc = "tab1"
    /\ tab1' = [st_folium |-> carte]
    /\ data_load_state' = MsgVisuCarte
    /\ appels' = appels \cup {"st_folium"}
    /\ pc' = "tab2"
    /\ UNCHANGED <<session_state, cache, uploaded_file, today, itineraire, dept_iti,
                   zones_arretes, df_arretes, table_indic, carte, tab2, echec, arg, ret>>

\* lines 813-822: indicators in tab2, then the request for the map is cleared
AfficherIndic ==
    /\ pc = "tab2"
    /\ IF df_arretes # <<>>
       THEN /\ tab2' = [indic |-> inserer_indic_dept(table_indic)]
            /\ data_load_state' = MsgVisuIndic
            /\ appels' = appels \cup {"inserer_indic_dept"}
       ELSE /\ data_load_state' = MsgEchec
            /\ UNCHANGED <<tab2, appels>>
    /\ session_state' = [construire_carte |-> "False"]
    /\ pc' = "fin"
    /\ UNCHANGED <<cache, uploaded_file, today, itineraire, dept_iti, zones_arretes,
                   df_arretes, table_indic, carte, tab1, echec, arg, ret>>

RunTermine == pc \in {"fin", "exception"}

\* button "Afficher la carte": on_click=change_etat, args=[True], then a new run
ClicAfficher ==
    /\ RunTermine
    /\ session_state' = [construire_carte |-> "True"]
    /\ pc' = "debut"
    /\ appels' = {}
    /\ echec' = None
    /\ UNCHANGED <<cache, uploaded_file, today, data_load_state, itineraire, dept_iti,
                   zones_arretes, df_arretes, table_indic, carte, tab1, tab2, arg, ret>>

\* file uploader of the sidebar: a file is chosen or removed, then a new run
ChargerFichier ==
    /\ RunTermine
    /\ uploaded_file' = IF uploaded_file = None THEN "zones.zip" ELSE None
    /\ cache' = [cache EXCEPT !.fichier = Absent]
    /\ pc' = "debut"
    /\ appels' = {}
    /\ echec' = None
    /\ UNCHANGED <<session_state, today, data_load_state, itineraire, dept_iti,
                   zones_arretes, df_arretes, table_indic, carte, tab1, tab2, arg, ret>>

Next ==
    \/ MainDebut
    \/ LireItineraire
    \/ LireDeptIti
    \/ GetZones
    \/ GetArretes
    \/ FinChargement
    \/ ConstruireTableIndic
    \/ ConstruireCarte
    \/ AfficherCarte
    \/ AfficherIndic
    \/ ClicAfficher
    \/ ChargerFichier

Spec == Init /\ [][Next]_vars

(***************************************************************************)
(* Properties of the failure paths of main.                                *)
(***************************************************************************)
ApresGetArretes == {"fin_chargement", "table_indic", "carte", "tab1", "tab2", "fin"}

\* state part of C1: after a failed download the run goes on with an empty
\* table and calls neither construire_table_indic nor inserer_indic_dept
C1_Etat ==
    echec = "get_arretes" =>
        /\ pc \in ApresGetArretes
        /\ df_arretes = <<>>
        /\ "construire_table_indic" \notin appels
        /\ "inserer_indic_dept" \notin appels
        /\ tab2 = None
        /\ (pc \in {"tab2", "fin"} /\ "construire_carte" \in appels) =>
              tab1 = [st_folium |-> construire_carte(itineraire, zones_arretes, dept_iti,
                                                      uploaded_file, today)]

\* step part of C1: with the flag set, the step after the indicators builds
\* the map and the next one displays it in tab1
C1_Pas ==
    echec = "get_arretes" =>
        /\ (pc = "carte" /\ session_state.construire_carte = "True") =>
              /\ pc' = "tab1"
              /\ carte' = construire_carte(itineraire, zones_arretes, dept_iti,
                                            uploaded_file, today)
        /\ pc = "tab1" => (pc' = "tab2" /\ tab1' = [st_folium |-> carte])

\* C1: an exception of get_arretes() is caught: the run does not abort,
\* df_arretes is an empty table, construire_table_indic and
\* inserer_indic_dept are not called in that run, and with the
\* 'Afficher la carte' flag set the map is still built and shown in tab1.
C1_EchecArretesRattrape == []C1_Etat /\ [][C1_Pas]_vars

\* a run whose download failed has ended with the map displayed in tab1
C1_Witness ==
    /\ echec = "get_arretes"
    /\ pc = "fin"
    /\ "st_folium" \in appels
    /\ "construire_carte" \in appels

\* C2: when get_arretes fails during a run, the fallback message is what
\* the status text shows when the run ends, whether or not the button
\* 'Afficher la carte' was clicked.
C2_MessageEchecEnFin ==
    (pc = "fin" /\ echec = "get_arretes") => data_load_state = MsgEchec

EchecsNonRattrapes == {"lire_geopandas", "get_zones_secheresse"}

\* C10: only the failure of the archive download is recovered: a failure
\* of the zone fetch or of the reading of a static layer ends the run at
\* once, before any map or indicator is built or rendered, and a run ends
\* on an exception for no other reason.
C10_SeulEchecRattrape ==
    /\ echec \in EchecsNonRattrapes =>
          /\ pc = "exception"
          /\ appels = {}
          /\ carte = None /\ table_indic = None
          /\ tab1 = None /\ tab2 = None
    /\ echec = "get_arretes" => pc # "exception"
    /\ pc = "exception" => echec \in EchecsNonRattrapes

\* the zone fetch failed in a run where the map was asked for
C10_Witness ==
    /\ pc = "exception"
    /\ echec = "get_zones_secheresse"
    /\ session_state.construire_carte = "True"

(***************************************************************************)
(* Property of the date filter of calculer_dept_arretes_date.              *)
(***************************************************************************)
IsoLe(a, b) == a = b \/ IsoLt(a, b)

\* departments with a decree valid on d, its first and last day included,
\* that has a surface-water zone entry at one of the levels
DeptsValides(df, d, niveaux) ==
    {df[i].departement : i \in
        {j \in 1..Len(df) :
            /\ IsoLe(df[j].date_debut, d)
            /\ IsoLe(d, df[j].date_fin)
            /\ \E e \in EntreesZone(df[j]) : e[2] = "SUP" /\ e[1] \in niveaux}}

\* C11: the date filter keeps every decree that is valid on the search
\* date: a decree whose date_debut or date_fin equals date_compar is in
\* force on that date and its department is counted.
C11_BornesIncluses ==
    ret.fn = "calculer_dept_arretes_date" =>
        ret.resultat = Cardinality(DeptsValides(arg.df_arretes, ret.date_compar, ret.niveaux))

====
